---- MODULE Spec2Model ----
(***************************************************************************)
(* tiny-cli: the run loop of src/src/lib.rs (line editor, submit, the      *)
(* two-pass Tab protocol) and the command matching engine (Context, Level) *)
(* together with two handlers: handle_cli of src/examples/simple.rs and a  *)
(* handler that may make any call in any order.                            *)
(*                                                                         *)
(* Text is a sequence of scalar values (chars); a char is a one-character  *)
(* string, or a symbolic name for a byte or scalar that has no TLA+        *)
(* literal.  Option<T> is a record [some, v].                              *)
(*                                                                         *)
(* The reader and the sink are transports that can fail: every read, every *)
(* write_all and every flush either succeeds or returns Err, and an Err    *)
(* is handed on by "?" until run returns it.                               *)
(***************************************************************************)
EXTENDS Integers, Sequences, FiniteSets, TLC

\* ------------------------------------------------------------------ text

ESC == "ESC"        \* the byte 0x1B
BS == "BS"          \* the byte 0x08
E_ACUTE == "U+00E9" \* a scalar value of two UTF-8 bytes

None == [some |-> FALSE, v |-> <<>>]
Some(x) == [some |-> TRUE, v |-> x]

\* char::is_whitespace, on the chars of the model
is_whitespace(c) == c \in {" ", "\t", "\n", "\r"}

\* char::len_utf8
len_utf8(c) == IF c = E_ACUTE THEN 2 ELSE 1

RECURSIVE byte_len(_)
\* str::len: the length of a text in bytes
byte_len(s) == IF s = <<>> THEN 0 ELSE len_utf8(Head(s)) + byte_len(Tail(s))

\* str::starts_with
starts_with(s, p) == Len(p) <= Len(s) /\ SubSeq(s, 1, Len(p)) = p

\* str::strip_prefix
strip_prefix(s, p) ==
    IF starts_with(s, p) THEN Some(SubSeq(s, Len(p) + 1, Len(s))) ELSE None

RECURSIVE trim_start(_)
\* str::trim_start
trim_start(s) ==
    IF s # <<>> /\ is_whitespace(Head(s)) THEN trim_start(Tail(s)) ELSE s

RECURSIVE trim_end(_)
\* str::trim_end
trim_end(s) ==
    IF s # <<>> /\ is_whitespace(s[Len(s)])
    THEN trim_end(SubSeq(s, 1, Len(s) - 1))
    ELSE s

\* str::rsplit_once(char::is_whitespace): split at the last whitespace char
rsplit_once(s) ==
    LET ws == {i \in 1..Len(s) : is_whitespace(s[i])} IN
    IF ws = {} THEN None
    ELSE LET i == CHOOSE k \in ws : \A j \in ws : j <= k IN
         Some(<<SubSeq(s, 1, i - 1), SubSeq(s, i + 1, Len(s))>>)

RECURSIVE common_prefix_end(_, _, _)
\* the loop of common_prefix: the number of leading chars of a and b that
\* agree, counted from position i on
common_prefix_end(a, b, i) ==
    IF i > Len(a) \/ i > Len(b) THEN i - 1
    ELSE IF a[i] # b[i] THEN i - 1
    ELSE common_prefix_end(a, b, i + 1)

\* a variant of common_prefix that keeps the whole first argument
common_prefix_keeps_a(a, b) == a

\* common_prefix (lib.rs 292-303)
common_prefix(a, b) == SubSeq(a, 1, common_prefix_end(a, b, 1))

\* ------------------------------------------------------------ line buffer

\* String<64>: the capacity of the line buffer, in bytes
Capacity == 64

\* a variant of push_str that appends whether or not the bytes fit
push_str_unchecked(line, s) == [ok |-> TRUE, line |-> line \o s]

\* heapless String::push_str: appends when the bytes fit, else leaves the
\* string unchanged and reports Err
push_str(line, s) ==
    IF byte_len(line) + byte_len(s) <= Capacity
    THEN [ok |-> TRUE, line |-> line \o s]
    ELSE [ok |-> FALSE, line |-> line]

\* a variant of pop that reports the scalar value but leaves it in place
pop_keeps_line(line) == [some |-> line # <<>>, line |-> line]

\* heapless String::pop: removes the last scalar value
pop(line) ==
    IF line = <<>> THEN [some |-> FALSE, line |-> line]
    ELSE [some |-> TRUE, line |-> SubSeq(line, 1, Len(line) - 1)]

\* ------------------------------------------------------- Level and Context

\* Level::new
Level(line) == [line |-> line]

\* the variants of ContextType; the two locals of run that the BestMatch
\* variant borrows (autocomplete_best_match, exact_match) are kept in it
Execute == [tag |-> "Execute", autocomplete_best_match |-> None,
            exact_match |-> FALSE, to_complete |-> <<>>]
AutocompleteBestMatch(to_complete) ==
    [tag |-> "AutocompleteBestMatch", autocomplete_best_match |-> None,
     exact_match |-> FALSE, to_complete |-> to_complete]
AutocompleteList(to_complete) ==
    [tag |-> "AutocompleteList", autocomplete_best_match |-> None,
     exact_match |-> FALSE, to_complete |-> to_complete]

\* Context::new.  writer is the sink the Context borrows: the bytes written
\* to it so far.  The sink is a transport that can fail: fail = k > 0 says
\* that its k-th write_all from now returns Err, fail = 0 that none does;
\* err says that a write_all of this traversal has returned Err.  hinted and
\* after_err are history: the names hint_autocomplete was called with in
\* this traversal, in call order, and whether a write_all was issued after
\* one had returned Err.
ContextNew(ctx_type, writer) ==
    [ctx_type |-> ctx_type, printed_stuff |-> FALSE, done |-> FALSE,
     writer |-> writer, fail |-> 0, err |-> FALSE, hinted |-> <<>>,
     after_err |-> FALSE]

\* self.writer.write_all(data).await: the bytes reach the sink, or the call
\* returns Err and the transport is past its failure
write_all(ctx, data) ==
    IF ctx.fail = 1
    THEN [ctx EXCEPT !.err = TRUE, !.fail = 0, !.after_err = @ \/ ctx.err]
    ELSE [ctx EXCEPT !.writer = @ \o data,
                     !.fail = IF @ = 0 THEN 0 ELSE @ - 1,
                     !.after_err = @ \/ ctx.err]

\* a variant of exec that does not look at the mode
exec_any_mode(ctx, level) ==
    IF ctx.done THEN FALSE ELSE level.line = <<>>

\* Context::exec
exec(ctx, level) ==
    IF ctx.done THEN FALSE
    ELSE ctx.ctx_type = Execute /\ level.line = <<>>

\* Context::exec_arg
exec_arg(ctx, level) ==
    IF ctx.done THEN None
    ELSE IF ctx.ctx_type = Execute
         THEN LET line == trim_end(level.line) IN
              IF line = <<>> THEN None ELSE Some(line)
         ELSE None

\* a variant of _print that normalizes the display on every call
_print_normalizes_each_time(ctx, data) ==
    LET norm == IF ctx.ctx_type = Execute THEN <<"\r", "\n">>
                ELSE <<"\r", ESC, "[", "0", "K">>
        w == write_all([ctx EXCEPT !.printed_stuff = TRUE], norm)
    IN IF w.err THEN w ELSE write_all(w, data)

\* a variant of _print that goes on to write the data when the write of
\* the normalization returned Err
_print_ignores_error(ctx, data) ==
    LET first == ~ctx.printed_stuff
        norm == IF ctx.ctx_type = Execute THEN <<"\r", "\n">>
                ELSE <<"\r", ESC, "[", "0", "K">>
        flagged == [ctx EXCEPT !.printed_stuff = TRUE]
        w == IF first THEN write_all(flagged, norm) ELSE flagged
    IN write_all(w, data)

\* a variant of _print that writes "\r\n" in every mode
_print_crlf_in_every_mode(ctx, data) ==
    LET first == ~ctx.printed_stuff
        flagged == [ctx EXCEPT !.printed_stuff = TRUE]
        w == IF first THEN write_all(flagged, <<"\r", "\n">>) ELSE flagged
    IN IF w.err THEN w ELSE write_all(w, data)

\* Context::_print
_print(ctx, data) ==
    LET first == ~ctx.printed_stuff
        norm == IF ctx.ctx_type = Execute THEN <<"\r", "\n">>
                ELSE <<"\r", ESC, "[", "0", "K">>
        flagged == [ctx EXCEPT !.printed_stuff = TRUE]
        w == IF first THEN write_all(flagged, norm) ELSE flagged
    IN IF w.err THEN w ELSE write_all(w, data)

\* Context::print
print(ctx, data) == _print(ctx, data)

\* Context::hint_autocomplete
hint_autocomplete(ctx0, name) ==
    LET ctx == [ctx0 EXCEPT !.hinted = Append(ctx0.hinted, name)]
        t == ctx.ctx_type
    IN CASE t.tag = "AutocompleteBestMatch" ->
              LET x == strip_prefix(name, t.to_complete) IN
              IF x.some
              THEN IF t.autocomplete_best_match.some
                   THEN [ctx EXCEPT
                           !.ctx_type.exact_match = FALSE,
                           !.ctx_type.autocomplete_best_match =
                               Some(common_prefix(t.autocomplete_best_match.v, x.v))]
                   ELSE [ctx EXCEPT
                           !.ctx_type.exact_match = TRUE,
                           !.ctx_type.autocomplete_best_match = Some(x.v)]
              ELSE ctx
         [] t.tag = "AutocompleteList" ->
              IF starts_with(name, t.to_complete)
              THEN LET sep == IF ctx.printed_stuff THEN print(ctx, <<" ">>)
                              ELSE ctx
                   IN IF sep.err THEN sep ELSE print(sep, name)
              ELSE ctx
         [] OTHER -> ctx

\* a variant of command that calls the hint hook whenever nothing matched
command_hints_on_failure(ctx, level, name) ==
    IF ctx.done THEN [ctx |-> ctx, ret |-> None]
    ELSE LET prefix_removed == strip_prefix(level.line, name) IN
         IF /\ level.line # <<>>
            /\ prefix_removed.some
            /\ (prefix_removed.v = <<>> \/ is_whitespace(Head(prefix_removed.v)))
         THEN [ctx |-> ctx, ret |-> Some(Level(trim_start(prefix_removed.v)))]
         ELSE [ctx |-> hint_autocomplete(ctx, name), ret |-> None]

\* a variant of command that descends whenever the name is a prefix
command_any_prefix(ctx, level, name) ==
    IF ctx.done THEN [ctx |-> ctx, ret |-> None]
    ELSE IF level.line # <<>>
    THEN LET prefix_removed == strip_prefix(level.line, name) IN
         IF prefix_removed.some
         THEN [ctx |-> ctx, ret |-> Some(Level(trim_start(prefix_removed.v)))]
         ELSE [ctx |-> ctx, ret |-> None]
    ELSE [ctx |-> hint_autocomplete(ctx, name), ret |-> None]

\* Context::command: the Context after the call and the Level returned
command(ctx, level, name) ==
    IF ctx.done THEN [ctx |-> ctx, ret |-> None]
    ELSE IF level.line # <<>>
    THEN LET prefix_removed == strip_prefix(level.line, name) IN
         IF prefix_removed.some
            /\ (prefix_removed.v = <<>> \/ is_whitespace(Head(prefix_removed.v)))
         THEN [ctx |-> ctx, ret |-> Some(Level(trim_start(prefix_removed.v)))]
         ELSE [ctx |-> ctx, ret |-> None]
    ELSE [ctx |-> hint_autocomplete(ctx, name), ret |-> None]

\* ------------------------------------------------- examples/simple.rs

s_config == <<"c", "o", "n", "f", "i", "g">>
s_enable == <<"e", "n", "a", "b", "l", "e">>
s_logging == <<"l", "o", "g", "g", "i", "n", "g">>
s_logfile == <<"l", "o", "g", "f", "i", "l", "e">>
s_connetion == <<"c", "o", "n", "n", "e", "t", "i", "o", "n">>
s_constant == <<"c", "o", "n", "s", "t", "a", "n", "t">>
s_set == <<"s", "e", "t">>
s_fruit == <<"f", "r", "u", "i", "t">>
s_apple == <<"a", "p", "p", "l", "e">>
s_apricot == <<"a", "p", "r", "i", "c", "o", "t">>
s_banana == <<"b", "a", "n", "a", "n", "a">>
s_strawberry == <<"s", "t", "r", "a", "w", "b", "e", "r", "r", "y">>
s_save == <<"s", "a", "v", "e">>
s_reboot == <<"r", "e", "b", "o", "o", "t">>
s_infinite == <<"i", "n", "f", "i", "n", "i", "t", "e">>
s_loop == <<"l", "o", "o", "p">>
s_set_value == <<"s", "e", "t", " ", "v", "a", "l", "u", "e", " ">>
s_get_value == <<"g", "e", "t", " ", "v", "a", "l", "u", "e", " ">>
s_set_fruit == <<"s", "e", "t", " ", "f", "r", "u", "i", "t", " ">>
s_reached_level == <<"r", "e", "a", "c", "h", "e", "d", " ", "l", "e", "v", "e", "l", " ">>

\* the array the config loop of handle_cli iterates over
config_items == <<s_enable, s_logging, s_logfile, s_connetion, s_constant>>

RECURSIVE format_int(_)
\* format!("{}", n) of a natural number: its decimal digits
format_int(n) ==
    LET digit == <<"0", "1", "2", "3", "4", "5", "6", "7", "8", "9">> IN
    IF n < 10 THEN <<digit[n + 1]>>
    ELSE format_int(n \div 10) \o <<digit[(n % 10) + 1]>>

\* The position of handle_cli and its local variables: the Levels bound by
\* the nested "if let Some(level)" (l1, l2, l3, outermost first), the index
\* of the for loop (i), the counter of the while loop (n), the argument
\* bound by "if let Some(arg)".
HandlerStart ==
    [pc |-> "config", l1 |-> Level(<<>>), l2 |-> Level(<<>>),
     l3 |-> Level(<<>>), i |-> 1, n |-> 0, arg |-> <<>>]

\* rows of the table below
Cmd(on, name, into, yes, no, i, n) ==
    [op |-> "command", on |-> on, name |-> name, into |-> into,
     yes |-> yes, no |-> no, i |-> i, n |-> n]
Leaf(op, on, yes, no) ==
    [op |-> op, on |-> on, name |-> <<>>, into |-> "", yes |-> yes, no |-> no,
     i |-> 0, n |-> 0]
Call(op, data, next) ==
    [op |-> op, on |-> "", name |-> data, into |-> "", yes |-> next,
     no |-> next, i |-> 0, n |-> 0]

\* handle_cli (lines 62-120) as a table: at position h.pc the handler makes
\* the call op on the Level held in "on" ("level" is the Level passed in);
\* a command that matches binds the new Level to "into" and goes to "yes",
\* anything that does not match goes to "no"
handle_cli(h) ==
    LET name == config_items[h.i] IN
    CASE h.pc = "config" -> Cmd("level", s_config, "l1", "item", "fruit", 1, h.n)
      [] h.pc = "item" -> Cmd("l1", name, "l2", "set", "next_item", h.i, h.n)
      [] h.pc = "set" -> Cmd("l2", s_set, "l3", "set_arg", "get", h.i, h.n)
      [] h.pc = "set_arg" -> Leaf("exec_arg", "l3", "set_print", "get")
      [] h.pc = "set_print" ->
           Call("print", s_set_value \o name \o <<" ">> \o h.arg, "get")
      [] h.pc = "get" -> Leaf("exec", "l2", "get_print", "next_item")
      [] h.pc = "get_print" -> Call("print", s_get_value \o name, "next_item")
      [] h.pc = "next_item" -> Call("for", <<>>, "item")
      [] h.pc = "fruit" -> Cmd("level", s_fruit, "l1", "fruit_arg", "save", h.i, h.n)
      [] h.pc = "fruit_arg" -> Leaf("exec_arg", "l1", "fruit_print", "hint_apple")
      [] h.pc = "fruit_print" -> Call("print", s_set_fruit \o h.arg, "save")
      [] h.pc = "hint_apple" -> Call("hint_autocomplete", s_apple, "hint_apricot")
      [] h.pc = "hint_apricot" -> Call("hint_autocomplete", s_apricot, "hint_banana")
      [] h.pc = "hint_banana" -> Call("hint_autocomplete", s_banana, "hint_strawberry")
      [] h.pc = "hint_strawberry" -> Call("hint_autocomplete", s_strawberry, "save")
      [] h.pc = "save" -> Cmd("level", s_save, "l1", "save_exec", "reboot", h.i, h.n)
      [] h.pc = "save_exec" -> Leaf("exec", "l1", "save_print", "reboot")
      [] h.pc = "save_print" -> Call("print", s_save, "reboot")
      [] h.pc = "reboot" -> Cmd("level", s_reboot, "l1", "reboot_exec", "infinite", h.i, h.n)
      [] h.pc = "reboot_exec" -> Leaf("exec", "l1", "reboot_print", "infinite")
      [] h.pc = "reboot_print" -> Call("print", s_reboot, "infinite")
      [] h.pc = "infinite" -> Cmd("level", s_infinite, "l1", "loop", "return", h.i, 0)
      [] h.pc = "loop" -> Cmd("l1", s_loop, "l1", "loop_exec", "return", h.i, h.n + 1)
      [] h.pc = "loop_exec" -> Leaf("exec", "l1", "loop_print", "loop")
      [] h.pc = "loop_print" ->
           Call("print", s_reached_level \o format_int(h.n), "loop")
      [] OTHER -> Call("return", <<>>, "return")

\* ------------------------------------------------------------ input bytes

\* The bytes a read can deliver.  A printable ASCII byte is its char; the
\* bytes below are named after what the parser makes of them.
CtrlC == "CtrlC"
CtrlD == "CtrlD"
Backspace == "Backspace"
CtrlH == "CtrlH"
CarriageReturn == "CarriageReturn"
Tab == "Tab"
CtrlA == "CtrlA"      \* a control character the run loop ignores
Lead == "0xC3"        \* first byte of U+00E9
Cont == "0xA9"        \* second byte of U+00E9

ControlBytes == {CtrlC, CtrlD, Backspace, CtrlH, CarriageReturn, Tab, CtrlA}

\* Parser::new: no bytes of a scalar value pending
ParserNew == <<>>

\* Parser::advance: the parser after the byte and the Action it yields.
\* A control byte is classified at once; a lead byte is kept; a continuation
\* byte completes the pending scalar value or is dropped; any other byte
\* discards a pending prefix and is decoded on its own.
advance(parser, byte) ==
    CASE byte \in ControlBytes ->
           [parser |-> <<>>, action |-> [kind |-> "ControlCharacter", v |-> byte]]
      [] byte = Lead ->
           [parser |-> <<Lead>>, action |-> [kind |-> "Incomplete", v |-> ""]]
      [] byte = Cont ->
           IF parser = <<Lead>>
           THEN [parser |-> <<>>, action |-> [kind |-> "Print", v |-> E_ACUTE]]
           ELSE [parser |-> <<>>, action |-> [kind |-> "Incomplete", v |-> ""]]
      [] OTHER ->
           [parser |-> <<>>, action |-> [kind |-> "Print", v |-> byte]]

\* ------------------------------------------------------------------ bounds

\* reads issued in one run of the loop
MaxReads == 2
\* calls the free handler makes in one traversal
MaxCalls == 2

\* ---------------------------------------------------------------- state

VARIABLES
    handle,     \* run's parameter: "handle_cli", or "any" (a handler that may
                \* make any call)
    pc,         \* where run is: "read", "bytes" (the for loop over buf[..n]),
                \* "handle" (inside handle.handle), "handled" (it returned),
                \* "returned" (run returned Ok), "failed" (run returned Err)
    reads,      \* number of reads issued
    buf,        \* the bytes of buf[..n] not yet processed
    parser,     \* Parser: the pending bytes of a scalar value
    line,       \* line: String<64>
    writer,     \* the sink: the bytes written since the current Action, or
                \* the traversal under way, began
    level,      \* the Level run passes to the handler
    ctx,        \* the Context of the traversal under way
    h,          \* handle_cli: its position and local variables
    levels,     \* the Levels the free handler holds
    last,       \* the last call the free handler made, and what it returned
    ncalls,     \* number of calls the free handler made in this traversal
    prints,     \* number of ctx.print calls the handler made in this traversal
    terminals,  \* number of terminal actions of this traversal: exec calls
                \* that returned true, exec_arg calls that returned Some
    unflushed,  \* the sink holds bytes written since its last flush
    flushes,    \* number of flushes issued
    prev        \* the last Action of the batch under way that run matched,
                \* and the line as it was before

vars == <<handle, pc, reads, buf, parser, line, writer, level, ctx, h,
          levels, last, ncalls, prints, terminals, unflushed, flushes, prev>>

NoTraversal == [tag |-> "NoTraversal", autocomplete_best_match |-> None,
                exact_match |-> FALSE, to_complete |-> <<>>]
NoContext == ContextNew(NoTraversal, <<>>)
NoAction == [action |-> [kind |-> "none", v |-> ""], line |-> <<>>]
NoCall == [op |-> "none", level |-> Level(<<>>), name |-> <<>>,
           ok |-> FALSE, v |-> <<>>, hooked |-> FALSE]

\* ------------------------------------------------------------------ inputs

RECURSIVE Repeat(_, _)
Repeat(s, n) == IF n = 0 THEN <<>> ELSE s \o Repeat(s, n - 1)

\* "infinite", k spaces, ten times "loop ", "l": 59 + k bytes, so that the
\* completion "oop" and the space after it meet the capacity of the line
NearFull(k) ==
    s_infinite \o Repeat(<<" ">>, k) \o Repeat(s_loop \o <<" ">>, 10) \o <<"l">>

\* a line that is k bytes short of the capacity of the buffer
Filled(k) == Repeat(<<"z">>, Capacity - k)

\* batches of control bytes, for both handlers
KeyBatches == {<<Tab>>, <<CarriageReturn>>}

\* further batches, typed to handle_cli only
EditBatches ==
    {<<Tab, Tab>>, <<Tab, CarriageReturn>>, <<>>, <<CtrlC>>, <<CtrlC, CtrlC>>, <<CtrlD>>, <<Backspace>>, <<CtrlH>>,
     <<CtrlA>>, <<Lead, Cont>>, <<Cont>>, <<Lead, "s">>, <<"s", Lead, Cont>>}

\* text typed to handle_cli
CliTexts ==
    {<<"s">>,
     <<"c", "o", "n">>,
     <<"c", "o", "n", "f", "i", "g", " ">>,
     <<"c", "o", "n", "f", "i", "g", " ", "l", "o">>,
     <<"c", "o", "n", "f", "i", "g", " ", "c", "o", "n">>,
     <<"c", "o", "n", "f", "i", "g", " ", "e", "n", "a", "b", "l", "e">>,
     <<"c", "o", "n", "f", "i", "g", " ", "e", "n", "a", "b", "l", "e", " ", "s", "e", "t", " ", "o", "n">>,
     <<"f", "r", "u", "i", "t", " ", "a", "p", "p", "l", "e", " ">>,
     <<"f", "r", "u", "i", "t">>,
     <<"f", "r", "u", "i", "t", " ">>,
     <<"f", "r", "u", "i", "t", " ", "a">>,
     <<"s", "a", "v", "e">>,
     <<"i", "n", "f", "i", "n", "i", "t", "e", " ", "l", "o", "o", "p", " ", "l", "o", "o", "p">>,
     <<"c", "o", "n", "f", "i", "g", "u", "r", "a", "t", "i", "o", "n">>,
     <<" ", "s">>,
     NearFull(1), NearFull(2), NearFull(3),
     Filled(0), Filled(1)}

\* the names the free handler declares, the data it prints, the text typed
\* to it
AnyNames == {<<"a", "b">>, <<"a", "b", "c">>, <<"b">>}
AnyData == {<<"x">>}
AnyTexts ==
    {<<"a">>,
     <<"a", "b", "c">>,
     <<"a", "b", " ", " ", "b">>,
     <<" ", "b", " ">>,
     <<" ">>}

\* what one read can return, by handler
Batches(handler) ==
    IF handler = "handle_cli" THEN CliTexts \cup KeyBatches \cup EditBatches
    ELSE AnyTexts \cup KeyBatches

\* ------------------------------------------------------------------- run

Init ==
    /\ handle \in {"handle_cli", "any"}
    /\ pc = "read"
    /\ reads = 0
    /\ buf = <<>>
    /\ parser = ParserNew
    /\ line = <<>>
    /\ writer = <<>>
    /\ level = Level(<<>>)
    /\ ctx = NoContext
    /\ h = HandlerStart
    /\ levels = {}
    /\ last = NoCall
    /\ ncalls = 0
    /\ prints = 0
    /\ terminals = 0
    /\ unflushed = FALSE
    /\ flushes = 0
    /\ prev = NoAction

\* no traversal is under way, before and after this step
Idle == UNCHANGED <<level, ctx, h, levels, last, ncalls, prints, terminals>>

\* reader.read(&mut buf) (line 33)
Read ==
    /\ pc = "read"
    /\ reads < MaxReads
    /\ \E b \in Batches(handle) : buf' = b
    /\ reads' = reads + 1
    /\ pc' = "bytes"
    /\ UNCHANGED <<handle, parser, line, writer, unflushed, flushes, prev>>
    /\ Idle

\* reader.read(&mut buf) returns Err (line 33)
ReadErr ==
    /\ pc = "read"
    /\ reads < MaxReads
    /\ reads' = reads + 1
    /\ pc' = "failed"
    /\ UNCHANGED <<handle, buf, parser, line, writer, unflushed, flushes, prev>>
    /\ Idle

\* parser.advance(byte) for the next byte of the batch (line 36)
HasByte == pc = "bytes" /\ buf # <<>>
Action == advance(parser, Head(buf)).action
IsControl(a, ccs) == a.kind = "ControlCharacter" /\ a.v \in ccs
Consume ==
    /\ buf' = Tail(buf)
    /\ parser' = advance(parser, Head(buf)).parser
    /\ prev' = [action |-> Action, line |-> line]
    /\ UNCHANGED <<handle, reads, flushes>>

\* a variant of Exit that returns whatever the line holds
Exit_any_line ==
    /\ pc = "bytes"
    /\ buf # <<>>
    /\ advance(parser, Head(buf)).action.kind = "ControlCharacter"
    /\ advance(parser, Head(buf)).action.v \in {CtrlC, CtrlD}
    /\ buf' = Tail(buf)
    /\ parser' = <<>>
    /\ prev' = [action |-> advance(parser, Head(buf)).action, line |-> line]
    /\ pc' = "returned"
    /\ writer' = <<>>
    /\ UNCHANGED <<handle, reads, flushes, line, unflushed, level, ctx, h,
                   levels, last, ncalls, prints, terminals>>

\* CtrlC | CtrlD if line.is_empty(): return Ok(()) (lines 42-44)
Exit ==
    /\ HasByte
    /\ IsControl(Action, {CtrlC, CtrlD})
    /\ line = <<>>
    /\ Consume
    /\ pc' = "returned"
    /\ writer' = <<>>
    /\ UNCHANGED <<line, unflushed>>
    /\ Idle

\* a variant of ClearLine that writes the sequence and keeps the line
ClearLine_keeps_line ==
    /\ pc = "bytes"
    /\ buf # <<>>
    /\ advance(parser, Head(buf)).action = [kind |-> "ControlCharacter", v |-> CtrlC]
    /\ line # <<>>
    /\ buf' = Tail(buf)
    /\ parser' = <<>>
    /\ prev' = [action |-> advance(parser, Head(buf)).action, line |-> line]
    /\ writer' = <<"\r", ESC, "[", "0", "K", ">", " ">>
    /\ unflushed' = TRUE
    /\ UNCHANGED <<handle, reads, flushes, line, pc, level, ctx, h, levels,
                   last, ncalls, prints, terminals>>

\* CtrlC: clear line (lines 46-50)
ClearLine ==
    /\ HasByte
    /\ IsControl(Action, {CtrlC})
    /\ line # <<>>
    /\ Consume
    /\ writer' = <<"\r", ESC, "[", "0", "K", ">", " ">>
    /\ line' = <<>>
    /\ unflushed' = TRUE
    /\ UNCHANGED pc
    /\ Idle

\* CtrlC: the write returns Err (line 48)
ClearLineErr ==
    /\ HasByte
    /\ IsControl(Action, {CtrlC})
    /\ line # <<>>
    /\ Consume
    /\ writer' = <<>>
    /\ pc' = "failed"
    /\ UNCHANGED <<line, unflushed>>
    /\ Idle

\* Print(utf8_char) (lines 52-57); the char written stands for its bytes
PrintChar ==
    /\ HasByte
    /\ Action.kind = "Print"
    /\ Consume
    /\ LET r == push_str(line, <<Action.v>>) IN
       /\ line' = r.line
       /\ writer' = IF r.ok THEN <<Action.v>> ELSE <<>>
       /\ unflushed' = (unflushed \/ r.ok)
    /\ UNCHANGED pc
    /\ Idle

\* Print(utf8_char): the char was pushed and the echo returns Err (line 55)
PrintCharErr ==
    /\ HasByte
    /\ Action.kind = "Print"
    /\ push_str(line, <<Action.v>>).ok
    /\ Consume
    /\ line' = push_str(line, <<Action.v>>).line
    /\ writer' = <<>>
    /\ pc' = "failed"
    /\ UNCHANGED unflushed
    /\ Idle

\* Backspace | CtrlH (lines 59-64)
Erase ==
    /\ HasByte
    /\ IsControl(Action, {Backspace, CtrlH})
    /\ Consume
    /\ LET p == pop(line) IN
       /\ line' = p.line
       /\ writer' = IF p.some THEN <<BS, ESC, "[", "0", "K">> ELSE <<>>
       /\ unflushed' = (unflushed \/ p.some)
    /\ UNCHANGED pc
    /\ Idle

\* Backspace | CtrlH: a char was popped and the write returns Err (line 62)
EraseErr ==
    /\ HasByte
    /\ IsControl(Action, {Backspace, CtrlH})
    /\ pop(line).some
    /\ Consume
    /\ line' = pop(line).line
    /\ writer' = <<>>
    /\ pc' = "failed"
    /\ UNCHANGED unflushed
    /\ Idle

\* the Context and the handler's view at the start of a traversal
Traverse(lv, ctx_type, w) ==
    /\ level' = lv
    /\ ctx' = ContextNew(ctx_type, w)
    /\ h' = HandlerStart
    /\ levels' = {lv}
    /\ last' = NoCall
    /\ ncalls' = 0
    /\ prints' = 0
    /\ terminals' = 0
    /\ writer' = w
    /\ pc' = "handle"

\* the Context is dropped at the end of a traversal
Drop ==
    /\ level' = Level(<<>>)
    /\ ctx' = NoContext
    /\ h' = HandlerStart
    /\ levels' = {}
    /\ last' = NoCall
    /\ ncalls' = 0
    /\ prints' = 0
    /\ terminals' = 0
    /\ pc' = "bytes"

\* run returns Err: its locals, the Context among them, are dropped
Abort ==
    /\ level' = Level(<<>>)
    /\ ctx' = NoContext
    /\ h' = HandlerStart
    /\ levels' = {}
    /\ last' = NoCall
    /\ ncalls' = 0
    /\ prints' = 0
    /\ terminals' = 0
    /\ pc' = "failed"

\* CarriageReturn, up to the call of the handler (lines 66-70)
Enter ==
    /\ HasByte
    /\ IsControl(Action, {CarriageReturn})
    /\ Consume
    /\ Traverse(Level(line), Execute, <<>>)
    /\ UNCHANGED <<line, unflushed>>

\* a variant of EnterDone that keeps the line
EnterDone_keeps_line ==
    /\ pc = "handled"
    /\ ctx.ctx_type.tag = "Execute"
    /\ ~ctx.err
    /\ writer' = ctx.writer \o <<"\r", "\n", ">", " ">>
    /\ unflushed' = TRUE
    /\ Drop
    /\ UNCHANGED <<handle, reads, buf, parser, line, flushes, prev>>

\* CarriageReturn, after the handler returned (lines 71-72)
EnterDone ==
    /\ pc = "handled"
    /\ ctx.ctx_type.tag = "Execute"
    /\ ~ctx.err
    /\ line' = <<>>
    /\ writer' = ctx.writer \o <<"\r", "\n", ">", " ">>
    /\ unflushed' = TRUE
    /\ Drop
    /\ UNCHANGED <<handle, reads, buf, parser, flushes, prev>>

\* CarriageReturn: the line was cleared and the write returns Err (line 72)
EnterDoneErr ==
    /\ pc = "handled"
    /\ ctx.ctx_type.tag = "Execute"
    /\ ~ctx.err
    /\ line' = <<>>
    /\ Abort
    /\ UNCHANGED <<handle, reads, buf, parser, writer, unflushed, flushes, prev>>

\* the split of the line at its last whitespace (lines 84-88)
split_line(l) ==
    LET r == rsplit_once(l) IN IF r.some THEN r.v ELSE <<<<>>, l>>

\* Tab, up to the first call of the handler (lines 75-102)
TabKey ==
    /\ HasByte
    /\ IsControl(Action, {Tab})
    /\ Consume
    /\ LET command_path == split_line(line)[1]
           to_complete == split_line(line)[2]
       IN Traverse(Level(command_path), AutocompleteBestMatch(to_complete), <<>>)
    /\ UNCHANGED <<line, unflushed>>

\* anything else (line 133)
Ignore ==
    /\ HasByte
    /\ ~IsControl(Action, {CtrlC, Backspace, CtrlH, CarriageReturn, Tab})
    /\ ~(IsControl(Action, {CtrlD}) /\ line = <<>>)
    /\ Action.kind # "Print"
    /\ Consume
    /\ writer' = <<>>
    /\ UNCHANGED <<pc, line, unflushed>>
    /\ Idle

\* a variant of Flush that also flushes between the actions of a batch
Flush_between_actions ==
    /\ pc = "bytes"
    /\ pc' = IF buf = <<>> THEN "read" ELSE "bytes"
    /\ unflushed' = FALSE
    /\ flushes' = flushes + 1
    /\ prev' = IF buf = <<>> THEN NoAction ELSE prev
    /\ UNCHANGED <<handle, reads, buf, parser, line, writer, level, ctx, h,
                   levels, last, ncalls, prints, terminals>>

\* writer.flush() after the for loop (line 137)
Flush ==
    /\ pc = "bytes"
    /\ buf = <<>>
    /\ pc' = "read"
    /\ unflushed' = FALSE
    /\ flushes' = flushes + 1
    /\ prev' = NoAction
    /\ UNCHANGED <<handle, reads, buf, parser, line, writer>>
    /\ Idle

\* writer.flush() returns Err (line 137)
FlushErr ==
    /\ pc = "bytes"
    /\ buf = <<>>
    /\ pc' = "failed"
    /\ flushes' = flushes + 1
    /\ UNCHANGED <<handle, reads, buf, parser, line, writer, unflushed, prev>>
    /\ Idle

\* ------------------------------------------------------------- handlers

\* The transport during one call of the handler: which of the write_all
\* calls the call makes returns Err (0: none; a call makes at most two).
Fails == 0 .. 2
Plan(c, k) == [c EXCEPT !.fail = k]
Settle(c) == [c EXCEPT !.fail = 0]

\* what a step of the handler leaves alone; NoPrint is a step other than a
\* call of ctx.print
InRun == UNCHANGED <<handle, reads, buf, parser, line, level, flushes, prev>>
\* the bytes a step of the handler wrote wait for the next flush
Wrote == unflushed' = (unflushed \/ writer' # writer)
NoPrint == InRun /\ UNCHANGED prints

\* what a call returned, as the handler saw it: ok says that it matched
\* (Some, or true), v is the text returned, hooked that the call reached
\* hint_autocomplete
Returned(op, l, name, ok, v, hooked) ==
    [op |-> op, level |-> l, name |-> name, ok |-> ok, v |-> v,
     hooked |-> hooked]

\* handle_cli is at a row of its table that makes the call op
AtRow(op) ==
    pc = "handle" /\ handle = "handle_cli" /\ ~ctx.err /\ handle_cli(h).op = op
\* the Level a row of handle_cli names
Held(on) == IF on = "level" THEN level ELSE h[on]

\* handle_cli calls ctx.command(level, name)
CliCommand ==
    /\ AtRow("command")
    /\ \E k \in Fails :
       LET row == handle_cli(h)
           r == command(Plan(ctx, k), Held(row.on), row.name)
       IN /\ ctx' = Settle(r.ctx)
          /\ h' = IF r.ret.some
                  THEN [h EXCEPT !.pc = row.yes, ![row.into] = r.ret.v,
                                 !.i = row.i, !.n = row.n]
                  ELSE [h EXCEPT !.pc = row.no]
          /\ last' = Returned("command", Held(row.on), row.name, r.ret.some,
                              IF r.ret.some THEN r.ret.v.line ELSE <<>>,
                              r.ctx.hinted # ctx.hinted)
    /\ writer' = ctx'.writer
    /\ NoPrint
    /\ UNCHANGED <<pc, levels, ncalls, terminals>>
    /\ Wrote

\* handle_cli calls ctx.exec(level)
CliExec ==
    /\ AtRow("exec")
    /\ LET row == handle_cli(h)
           r == exec(ctx, Held(row.on))
       IN /\ h' = [h EXCEPT !.pc = IF r THEN row.yes ELSE row.no]
          /\ last' = Returned("exec", Held(row.on), <<>>, r, <<>>, FALSE)
          /\ terminals' = IF r THEN terminals + 1 ELSE terminals
    /\ NoPrint
    /\ UNCHANGED <<pc, ctx, writer, levels, ncalls>>
    /\ Wrote

\* handle_cli calls ctx.exec_arg(level)
CliExecArg ==
    /\ AtRow("exec_arg")
    /\ LET row == handle_cli(h)
           r == exec_arg(ctx, Held(row.on))
       IN /\ h' = IF r.some THEN [h EXCEPT !.pc = row.yes, !.arg = r.v]
                  ELSE [h EXCEPT !.pc = row.no]
          /\ last' = Returned("exec_arg", Held(row.on), <<>>, r.some, r.v, FALSE)
          /\ terminals' = IF r.some THEN terminals + 1 ELSE terminals
    /\ NoPrint
    /\ UNCHANGED <<pc, ctx, writer, levels, ncalls>>
    /\ Wrote

\* handle_cli calls ctx.hint_autocomplete(name)
CliHint ==
    /\ AtRow("hint_autocomplete")
    /\ \E k \in Fails :
       LET row == handle_cli(h) IN
          /\ ctx' = Settle(hint_autocomplete(Plan(ctx, k), row.name))
          /\ h' = [h EXCEPT !.pc = row.yes]
          /\ last' = Returned("hint_autocomplete", Level(<<>>), row.name,
                              FALSE, <<>>, TRUE)
    /\ writer' = ctx'.writer
    /\ NoPrint
    /\ UNCHANGED <<pc, levels, ncalls, terminals>>
    /\ Wrote

\* handle_cli calls ctx.print(format!(...))
CliPrint ==
    /\ AtRow("print")
    /\ \E k \in Fails :
       LET row == handle_cli(h) IN
          /\ ctx' = Settle(print(Plan(ctx, k), row.name))
          /\ h' = [h EXCEPT !.pc = row.yes]
          /\ last' = Returned("print", Level(<<>>), row.name, FALSE, <<>>, FALSE)
    /\ writer' = ctx'.writer
    /\ InRun
    /\ prints' = prints + 1
    /\ UNCHANGED <<pc, levels, ncalls, terminals>>
    /\ Wrote

\* handle_cli takes the next item of its for loop, or leaves the loop
CliFor ==
    /\ AtRow("for")
    /\ h' = IF h.i < Len(config_items)
            THEN [h EXCEPT !.pc = "item", !.i = h.i + 1]
            ELSE [h EXCEPT !.pc = "fruit", !.i = 1]
    /\ NoPrint
    /\ UNCHANGED <<pc, ctx, writer, levels, last, ncalls, terminals>>
    /\ Wrote

\* handle_cli returns Ok(())
CliReturn ==
    /\ AtRow("return")
    /\ pc' = "handled"
    /\ NoPrint
    /\ UNCHANGED <<ctx, writer, h, levels, last, ncalls, terminals>>
    /\ Wrote

\* the free handler may make one more call
MayCall == pc = "handle" /\ handle = "any" /\ ~ctx.err /\ ncalls < MaxCalls

\* the free handler calls ctx.command(level, name) on a Level it holds
AnyCommand ==
    /\ MayCall
    /\ \E l \in levels, n \in AnyNames, k \in Fails :
         LET r == command(Plan(ctx, k), l, n) IN
         /\ ctx' = Settle(r.ctx)
         /\ levels' = IF r.ret.some THEN levels \cup {r.ret.v} ELSE levels
         /\ last' = [op |-> "command", level |-> l, name |-> n,
                     ok |-> r.ret.some,
                     v |-> IF r.ret.some THEN r.ret.v.line ELSE <<>>,
                     hooked |-> r.ctx.hinted # ctx.hinted]
    /\ writer' = ctx'.writer
    /\ ncalls' = ncalls + 1
    /\ NoPrint
    /\ UNCHANGED h
    /\ UNCHANGED <<pc, terminals>>
    /\ Wrote

\* the free handler calls ctx.exec(level)
AnyExec ==
    /\ MayCall
    /\ \E l \in levels :
         LET r == exec(ctx, l) IN
         /\ last' = [op |-> "exec", level |-> l, name |-> <<>>, ok |-> r,
                     v |-> <<>>, hooked |-> FALSE]
         /\ terminals' = IF r THEN terminals + 1 ELSE terminals
    /\ ncalls' = ncalls + 1
    /\ NoPrint
    /\ UNCHANGED h
    /\ UNCHANGED <<pc, ctx, writer, levels>>
    /\ Wrote

\* the free handler calls ctx.exec_arg(level)
AnyExecArg ==
    /\ MayCall
    /\ \E l \in levels :
         LET r == exec_arg(ctx, l) IN
         /\ last' = [op |-> "exec_arg", level |-> l, name |-> <<>>,
                     ok |-> r.some, v |-> r.v, hooked |-> FALSE]
         /\ terminals' = IF r.some THEN terminals + 1 ELSE terminals
    /\ ncalls' = ncalls + 1
    /\ NoPrint
    /\ UNCHANGED h
    /\ UNCHANGED <<pc, ctx, writer, levels>>
    /\ Wrote

\* the free handler calls ctx.hint_autocomplete(name)
AnyHint ==
    /\ MayCall
    /\ \E n \in AnyNames, k \in Fails :
         /\ ctx' = Settle(hint_autocomplete(Plan(ctx, k), n))
         /\ last' = [op |-> "hint_autocomplete", level |-> Level(<<>>),
                     name |-> n, ok |-> FALSE, v |-> <<>>, hooked |-> TRUE]
    /\ writer' = ctx'.writer
    /\ ncalls' = ncalls + 1
    /\ NoPrint
    /\ UNCHANGED h
    /\ UNCHANGED <<pc, levels, terminals>>
    /\ Wrote

\* the free handler calls ctx.print(data)
AnyPrint ==
    /\ MayCall
    /\ \E d \in AnyData, k \in Fails :
         /\ ctx' = Settle(print(Plan(ctx, k), d))
         /\ last' = [op |-> "print", level |-> Level(<<>>), name |-> d,
                     ok |-> FALSE, v |-> <<>>, hooked |-> FALSE]
    /\ writer' = ctx'.writer
    /\ ncalls' = ncalls + 1
    /\ InRun
    /\ prints' = prints + 1
    /\ UNCHANGED h
    /\ UNCHANGED <<pc, levels, terminals>>
    /\ Wrote

\* the free handler returns Ok(())
AnyReturn ==
    /\ pc = "handle"
    /\ handle = "any"
    /\ ~ctx.err
    /\ pc' = "handled"
    /\ NoPrint
    /\ UNCHANGED h
    /\ UNCHANGED <<ctx, writer, levels, last, ncalls, terminals>>
    /\ Wrote

\* a call of ctx returned Err and the handler returns it ("?")
HandlerErr ==
    /\ pc = "handle"
    /\ ctx.err
    /\ pc' = "handled"
    /\ NoPrint
    /\ UNCHANGED <<ctx, writer, h, levels, last, ncalls, terminals, unflushed>>

\* handle.handle(..).await? : the handler returned Err and run returns it
\* (lines 70, 102, 113)
TraversalErr ==
    /\ pc = "handled"
    /\ ctx.err
    /\ Abort
    /\ UNCHANGED <<handle, reads, buf, parser, line, writer, unflushed,
                   flushes, prev>>

\* ----------------------------------------- Tab, after the handler returned

AfterBestMatch ==
    pc = "handled" /\ ctx.ctx_type.tag = "AutocompleteBestMatch" /\ ~ctx.err
autocomplete_best_match == ctx.ctx_type.autocomplete_best_match
exact_match == ctx.ctx_type.exact_match

\* None => () (lines 105-106)
BestMatchNone ==
    /\ AfterBestMatch
    /\ ~autocomplete_best_match.some
    /\ Drop
    /\ UNCHANGED <<handle, reads, buf, parser, line, writer, unflushed,
                   flushes, prev>>

\* a variant of BestMatchEmpty that passes the whole line to the list pass
BestMatchEmpty_whole_line ==
    /\ pc = "handled"
    /\ ctx.ctx_type.tag = "AutocompleteBestMatch"
    /\ ctx.ctx_type.autocomplete_best_match = Some(<<>>)
    /\ ~ctx.err
    /\ Traverse(Level(line), AutocompleteList(ctx.ctx_type.to_complete), <<>>)
    /\ UNCHANGED <<handle, reads, buf, parser, line, unflushed, flushes, prev>>

\* Some("") => the list pass, up to the call of the handler (lines 110-113)
BestMatchEmpty ==
    /\ AfterBestMatch
    /\ autocomplete_best_match = Some(<<>>)
    /\ Traverse(level, AutocompleteList(ctx.ctx_type.to_complete), <<>>)
    /\ UNCHANGED <<handle, reads, buf, parser, line, unflushed, flushes, prev>>

\* a variant of append_completion that appends the space after any completion
append_completion_always_space(l, complete, exact) ==
    LET r1 == push_str(l, complete)
        r2 == push_str(r1.line, <<" ">>)
    IN IF ~r1.ok THEN [line |-> l, written |-> <<>>]
       ELSE IF ~r2.ok THEN [line |-> r1.line, written |-> complete]
       ELSE [line |-> r2.line, written |-> complete \o <<" ">>]

\* the line and the bytes written by the arm Some(complete) (lines 120-130)
append_completion(l, complete, exact) ==
    LET r1 == push_str(l, complete)
        r2 == push_str(r1.line, <<" ">>)
    IN IF ~r1.ok THEN [line |-> l, written |-> <<>>]
       ELSE IF ~exact THEN [line |-> r1.line, written |-> complete]
       ELSE IF ~r2.ok THEN [line |-> r1.line, written |-> complete]
       ELSE [line |-> r2.line, written |-> complete \o <<" ">>]

\* Some(complete) => append the completion to the line (lines 120-130)
BestMatchComplete ==
    /\ AfterBestMatch
    /\ autocomplete_best_match.some
    /\ autocomplete_best_match.v # <<>>
    /\ LET r == append_completion(line, autocomplete_best_match.v, exact_match) IN
       /\ line' = r.line
       /\ writer' = writer \o r.written
       /\ unflushed' = (unflushed \/ r.written # <<>>)
    /\ Drop
    /\ UNCHANGED <<handle, reads, buf, parser, flushes, prev>>

\* Some(complete): the completion was pushed and its write returns Err
\* (line 122), or it was written, the space was pushed and the write of the
\* space returns Err (line 126)
BestMatchCompleteErr ==
    /\ AfterBestMatch
    /\ autocomplete_best_match.some
    /\ autocomplete_best_match.v # <<>>
    /\ LET complete == autocomplete_best_match.v
           r1 == push_str(line, complete)
           r2 == push_str(r1.line, <<" ">>)
       IN /\ r1.ok
          /\ \/ /\ line' = r1.line
                /\ UNCHANGED <<writer, unflushed>>
             \/ /\ exact_match
                /\ r2.ok
                /\ line' = r2.line
                /\ writer' = writer \o complete
                /\ unflushed' = TRUE
    /\ Abort
    /\ UNCHANGED <<handle, reads, buf, parser, flushes, prev>>

\* a variant of redraw that redraws the prompt alone
redraw_prompt_only(printed_stuff, l) ==
    IF printed_stuff THEN <<"\r", "\n", ">", " ">> ELSE <<>>

\* the bytes written after the list pass (lines 114-117)
redraw(printed_stuff, l) ==
    IF printed_stuff THEN <<"\r", "\n", ">", " ">> \o l ELSE <<>>

\* the list pass, after the handler returned (lines 114-117)
ListDone ==
    /\ pc = "handled"
    /\ ctx.ctx_type.tag = "AutocompleteList"
    /\ ~ctx.err
    /\ writer' = writer \o redraw(ctx.printed_stuff, line)
    /\ unflushed' = (unflushed \/ ctx.printed_stuff)
    /\ Drop
    /\ UNCHANGED <<handle, reads, buf, parser, line, flushes, prev>>

\* the list pass printed: the write of the prompt returns Err (line 115), or
\* the prompt was written and the write of the line returns Err (line 116)
ListDoneErr ==
    /\ pc = "handled"
    /\ ctx.ctx_type.tag = "AutocompleteList"
    /\ ~ctx.err
    /\ ctx.printed_stuff
    /\ \/ UNCHANGED <<writer, unflushed>>
       \/ /\ writer' = writer \o <<"\r", "\n", ">", " ">>
          /\ unflushed' = TRUE
    /\ Abort
    /\ UNCHANGED <<handle, reads, buf, parser, line, flushes, prev>>

Next ==
    \/ Read \/ Exit \/ ClearLine \/ PrintChar \/ Erase \/ Enter \/ EnterDone
    \/ TabKey \/ Ignore \/ Flush
    \/ CliCommand \/ CliExec \/ CliExecArg \/ CliHint \/ CliPrint \/ CliFor
    \/ CliReturn
    \/ AnyCommand \/ AnyExec \/ AnyExecArg \/ AnyHint \/ AnyPrint \/ AnyReturn
    \/ BestMatchNone \/ BestMatchEmpty \/ BestMatchComplete \/ ListDone
    \/ ReadErr \/ ClearLineErr \/ PrintCharErr \/ EraseErr \/ EnterDoneErr
    \/ FlushErr \/ HandlerErr \/ TraversalErr \/ BestMatchCompleteErr
    \/ ListDoneErr

Spec == Init /\ [][Next]_vars

\* ------------------------------------------------------------------ claims

InTraversal == pc \in {"handle", "handled"}
Mode == ctx.ctx_type.tag

\* p is a prefix of s
IsPrefix(p, s) == Len(p) <= Len(s) /\ \A i \in 1..Len(p) : s[i] = p[i]

\* C1: a command call on a non-empty suffix s with name n returns a Level if
\* and only if s starts with n and what follows n is whitespace or the end of
\* s; the Level returned holds what follows n, without its leading
\* whitespace.
C1_CommandMatches ==
    (InTraversal /\ last.op = "command" /\ last.level.line # <<>>) =>
       LET s == last.level.line
           n == last.name
           follows == /\ IsPrefix(n, s)
                      /\ (Len(s) = Len(n) \/ is_whitespace(s[Len(n) + 1]))
       IN /\ last.ok <=> follows
          /\ last.ok =>
               \E k \in Len(n)..Len(s) :
                  /\ \A j \in (Len(n) + 1)..k : is_whitespace(s[j])
                  /\ k < Len(s) => ~is_whitespace(s[k + 1])
                  /\ last.v = [j \in 1..(Len(s) - k) |-> s[k + j]]

\* C1 witness: "ab" matched against "ab  b" returned the Level "b"
C1_Witness ==
    /\ InTraversal
    /\ last.op = "command"
    /\ last.level.line = <<"a", "b", " ", " ", "b">>
    /\ last.name = <<"a", "b">>
    /\ last.ok
    /\ last.v = <<"b">>

\* C1, the case of the example: "config" does not match "configuration"
C1_StrictPrefixSeen ==
    /\ InTraversal
    /\ last.op = "command"
    /\ last.name = s_config
    /\ last.level.line = s_config \o <<"u", "r", "a", "t", "i", "o", "n">>
    /\ ~last.ok

\* C2: once a terminal action has occurred in a traversal (exec returned
\* true, exec_arg returned an argument), every later command, exec and
\* exec_arg call of the traversal reports no match, so that a traversal has
\* at most one terminal action.
C2_OneTerminalAction ==
    InTraversal =>
       /\ terminals <= 1
       /\ (terminals = 1 /\ last.ok) => last.op \in {"exec", "exec_arg"}

\* C2: the traversal of an empty submitted line in which the handler called
\* exec on the Level it was passed twice, and was told true twice
C2_TwoBodiesFired ==
    /\ InTraversal
    /\ Mode = "Execute"
    /\ terminals = 2
    /\ last.op = "exec"
    /\ last.ok

\* C3: an exec call returns true if and only if the mode is Execute and the
\* suffix of its Level is empty.
C3_ExecTrueIffExecuteAndEmpty ==
    (InTraversal /\ last.op = "exec") =>
       (last.ok <=> (Mode = "Execute" /\ Len(last.level.line) = 0))

\* C3 witness: exec returned true; the other cases of the claim, false for a
\* submitted line of whitespace only and false on an empty suffix in an
\* autocomplete mode, are C3_WhitespaceLineSeen and C3_AutocompleteSeen
C3_Witness ==
    /\ InTraversal
    /\ last.op = "exec"
    /\ last.ok
    /\ Mode = "Execute"

C3_WhitespaceLineSeen ==
    /\ InTraversal
    /\ Mode = "Execute"
    /\ last.op = "exec"
    /\ last.level = level
    /\ level.line = <<" ">>
    /\ ~last.ok

C3_AutocompleteSeen ==
    /\ InTraversal
    /\ Mode = "AutocompleteList"
    /\ last.op = "exec"
    /\ last.level.line = <<>>
    /\ ~last.ok

\* s without the whitespace at its two ends: the text between the first and
\* the last char of s that is not whitespace
Trimmed(s) ==
    LET solid == {i \in 1..Len(s) : ~is_whitespace(s[i])} IN
    IF solid = {} THEN <<>>
    ELSE LET lo == CHOOSE i \in solid : \A j \in solid : i <= j
             hi == CHOOSE i \in solid : \A j \in solid : j <= i
         IN [j \in 1..(hi - lo + 1) |-> s[lo + j - 1]]

\* C4: an exec_arg call returns an argument if and only if the mode is
\* Execute and the suffix of its Level holds a char that is not whitespace;
\* the argument is the suffix without its leading and trailing whitespace.
C4_ExecArgTrimmed ==
    (InTraversal /\ last.op = "exec_arg") =>
       /\ last.ok <=> (Mode = "Execute" /\ Trimmed(last.level.line) # <<>>)
       /\ last.ok => last.v = Trimmed(last.level.line)

\* C4: exec_arg on the Level run passes for the submitted line " b "
\* returned " b"
C4_LeadingWhitespaceKept ==
    /\ InTraversal
    /\ last.op = "exec_arg"
    /\ last.level = level
    /\ level.line = <<" ", "b", " ">>
    /\ last.v = <<" ", "b">>

\* the children of the node of handle_cli's command tree that a path of
\* tokens leads to: the names handle_cli passes to command there
Children(path) ==
    CASE path = <<>> -> {s_config, s_fruit, s_save, s_reboot, s_infinite}
      [] path = <<s_config>> -> {config_items[i] : i \in DOMAIN config_items}
      [] Len(path) = 2 /\ path[1] = s_config
           /\ path[2] \in {config_items[i] : i \in DOMAIN config_items} -> {s_set}
      [] Len(path) >= 1 /\ path[1] = s_infinite
           /\ \A i \in 2..Len(path) : path[i] = s_loop -> {s_loop}
      [] OTHER -> {}

RECURSIVE Tokens(_)
\* the tokens of a text: its maximal runs of chars that are not whitespace
Tokens(s) ==
    IF s = <<>> THEN <<>>
    ELSE IF is_whitespace(Head(s)) THEN Tokens(Tail(s))
    ELSE LET ends == {k \in 1..Len(s) :
                        k = Len(s) \/ is_whitespace(s[k + 1])}
             k == CHOOSE e \in ends : \A f \in ends : e <= f
         IN <<SubSeq(s, 1, k)>> \o Tokens(SubSeq(s, k + 1, Len(s)))

\* C5: a command call reaches the hint hook, with its name, exactly when the
\* suffix of its Level is empty, and then returns no match; so the names
\* handle_cli offers through command are children of the node that the
\* Level passed to the handler leads to.
C5_HookIffEmptySuffix ==
    (InTraversal /\ last.op = "command") =>
       /\ last.hooked <=> last.level.line = <<>>
       /\ last.hooked => ~last.ok /\ ctx.hinted[Len(ctx.hinted)] = last.name
       /\ (last.hooked /\ handle = "handle_cli") =>
             /\ last.name \in Children(Tokens(level.line))
             /\ level.line = <<>> \/ ~is_whitespace(level.line[1])

\* C5 witness: in the first pass of a Tab on "config lo", handle_cli
\* offered "logfile" at the node of "config"
C5_Witness ==
    /\ InTraversal
    /\ handle = "handle_cli"
    /\ Mode = "AutocompleteBestMatch"
    /\ level.line = s_config
    /\ last.op = "command"
    /\ last.hooked
    /\ last.name = s_logfile

\* the partial token of an autocomplete traversal, and the hint calls of the
\* traversal so far whose name starts with it
Partial == ctx.ctx_type.to_complete
Candidates == {i \in 1..Len(ctx.hinted) : IsPrefix(Partial, ctx.hinted[i])}

\* the longest text that, put after the partial token, is a prefix of every
\* candidate (there is at least one candidate)
CommonContinuation ==
    LET name(i) == ctx.hinted[i]
        first == CHOOSE i \in Candidates : TRUE
        Shared(k) ==
            /\ \A i \in Candidates : Len(name(i)) >= Len(Partial) + k
            /\ \A i \in Candidates : \A m \in 1..(Len(Partial) + k) :
                   name(i)[m] = name(first)[m]
        K == {k \in 0..Len(name(first)) : Shared(k)}
        kmax == CHOOSE k \in K : \A k2 \in K : k2 <= k
    IN [m \in 1..kmax |-> name(first)[Len(Partial) + m]]

\* C6: in a best-match traversal the best match is absent if no hinted name
\* starts with the partial token, and else is the longest common
\* continuation of the hinted names that start with it; the exact flag is
\* true if and only if exactly one hint matched.  Both are functions of the
\* hints made, whatever their order.
C6_BestMatchIsCommonContinuation ==
    (InTraversal /\ Mode = "AutocompleteBestMatch") =>
       /\ Candidates = {} => autocomplete_best_match = None
       /\ Candidates # {} => autocomplete_best_match = Some(CommonContinuation)
       /\ exact_match <=> Cardinality(Candidates) = 1

\* C6 witness: the pass returned with two candidates that share a
\* continuation which is shorter than either rest
C6_Witness ==
    /\ pc = "handled"
    /\ Mode = "AutocompleteBestMatch"
    /\ Cardinality(Candidates) = 2
    /\ autocomplete_best_match.v # <<>>
    /\ \A i \in Candidates :
          Len(ctx.hinted[i]) > Len(Partial) + Len(autocomplete_best_match.v)

RECURSIVE Join(_)
\* names, separated by single spaces
Join(names) ==
    IF names = <<>> THEN <<>>
    ELSE IF Len(names) = 1 THEN names[1]
    ELSE names[1] \o <<" ">> \o Join(Tail(names))

\* the hinted names that start with the partial token, in call order
Listed == SelectSeq(ctx.hinted, LAMBDA n : IsPrefix(Partial, n))

\* C7: in a list traversal in which the handler prints nothing itself and
\* no write returns Err, the bytes written are the normalization and then the hinted names that start
\* with the partial token, in call order, separated by single spaces; nothing
\* at all if no name matched.  With handle_cli, an empty line and an empty
\* partial token, the first pass ends with an empty best match and the list
\* pass hints config, fruit, save, reboot, infinite in this order.
C7_ListWritesMatchingNames ==
    /\ (InTraversal /\ Mode = "AutocompleteList" /\ prints = 0 /\ ~ctx.err) =>
          writer = IF Listed = <<>> THEN <<>>
                   ELSE <<"\r", ESC, "[", "0", "K">> \o Join(Listed)
    /\ (pc = "handled" /\ handle = "handle_cli" /\ level.line = <<>>
          /\ Partial = <<>> /\ ~ctx.err) =>
          /\ Mode = "AutocompleteBestMatch" =>
                autocomplete_best_match = Some(<<>>)
          /\ Mode = "AutocompleteList" =>
                Listed = <<s_config, s_fruit, s_save, s_reboot, s_infinite>>

\* C7 witness: the list pass of handle_cli on an empty line returned, having
\* written five names
C7_Witness ==
    /\ pc = "handled"
    /\ handle = "handle_cli"
    /\ Mode = "AutocompleteList"
    /\ level.line = <<>>
    /\ Partial = <<>>
    /\ Len(Listed) = 5
    /\ Len(writer) = 5 + 6 + 1 + 5 + 1 + 4 + 1 + 6 + 1 + 8

HasWhitespace(s) == \E i \in 1..Len(s) : is_whitespace(s[i])

\* C8, the split: the step that takes a Tab starts a best-match pass whose
\* Level and partial token are the line before and after its last whitespace
C8_Split ==
    (HasByte /\ IsControl(Action, {Tab})) =>
       LET path == level'.line
           t == ctx'.ctx_type.to_complete
       IN /\ pc' = "handle"
          /\ ctx'.ctx_type.tag = "AutocompleteBestMatch"
          /\ ~HasWhitespace(t)
          /\ IF HasWhitespace(line)
             THEN /\ Len(line) = Len(path) + 1 + Len(t)
                  /\ is_whitespace(line[Len(path) + 1])
                  /\ line = path \o <<line[Len(path) + 1]>> \o t
             ELSE path = <<>> /\ t = line

\* C8, the completion: a best match that is not empty and fits is appended
\* and echoed, followed by one space if and only if it is exact and the
\* space fits (in a step in which no write returns Err)
C8_Append ==
    (AfterBestMatch /\ autocomplete_best_match.some
       /\ autocomplete_best_match.v # <<>> /\ pc' # "failed") =>
       LET b == autocomplete_best_match.v
           room == Capacity - byte_len(line)
       IN byte_len(b) <= room =>
             IF exact_match /\ byte_len(b) + 1 <= room
             THEN /\ line' = line \o b \o <<" ">>
                  /\ writer' = writer \o b \o <<" ">>
             ELSE /\ line' = line \o b
                  /\ writer' = writer \o b

\* C8, the example: with handle_cli a Tab on the line "s" leaves "save "
C8_Example ==
    (AfterBestMatch /\ handle = "handle_cli" /\ line = <<"s">>
       /\ pc' # "failed") =>
       line' = s_save \o <<" ">>

\* C8: on Tab the line is split at its last whitespace into command path and
\* partial token; a best match of the first pass that is not empty and fits
\* the buffer is appended to the line and echoed, and one space is appended
\* and echoed after it if and only if the match is exact and the space fits.
C8_TabAppendsCompletion == [][C8_Split /\ C8_Append /\ C8_Example]_vars

\* C8 witness: after the Tab on "s" the line is "save " and "ave " was echoed
C8_Witness ==
    /\ pc = "bytes"
    /\ handle = "handle_cli"
    /\ line = s_save \o <<" ">>
    /\ writer = <<"a", "v", "e", " ">>

\* C8, the boundary: an exact completion filled the line to its capacity
\* and no space followed
C8_NoRoomForSpaceSeen ==
    /\ pc = "bytes"
    /\ byte_len(line) = Capacity
    /\ writer = <<"o", "o", "p">>

\* C9 as claimed: whenever the first pass ends without a best match or with
\* an empty one, the handler is called again, in list mode, with the same
\* Level.
C9_ListPassAfterAnyEmptyMatch ==
    [][(AfterBestMatch /\ (~autocomplete_best_match.some
                             \/ autocomplete_best_match.v = <<>>)) =>
          /\ pc' = "handle"
          /\ ctx'.ctx_type.tag = "AutocompleteList"
          /\ level' = level]_vars

\* C9 as amended: whenever the first pass ends with a best match that is
\* there and empty (a candidate matched, and the candidates share no
\* continuation), the handler is called again, in list mode, with the same
\* Level and partial token; when no candidate matched there is no best
\* match and the handler is not called again.
C9_ListPassAfterEmptyMatch ==
    [][/\ (AfterBestMatch /\ Candidates # {}
             /\ autocomplete_best_match.v = <<>>) =>
             /\ pc' = "handle"
             /\ ctx' = ContextNew(AutocompleteList(Partial), <<>>)
             /\ level' = level
       /\ (AfterBestMatch /\ Candidates = {}) =>
             /\ ~autocomplete_best_match.some
             /\ pc' = "bytes"]_vars

\* C9 witness: the list pass of handle_cli is under way for "config con",
\* whose candidates connetion and constant part at their first char
C9_Witness ==
    /\ pc = "handle"
    /\ handle = "handle_cli"
    /\ Mode = "AutocompleteList"
    /\ line = s_config \o <<" ", "c", "o", "n">>
    /\ level.line = s_config
    /\ Partial = <<"c", "o", "n">>

\* a step of run or of the handler that belongs to a Tab
TabStep ==
    \/ HasByte /\ IsControl(Action, {Tab})
    \/ InTraversal /\ Mode \in {"AutocompleteBestMatch", "AutocompleteList"}

\* C10: a step of a Tab leaves the line as it is or appends the completion,
\* with or without a space, to it; the list pass leaves the line as it is,
\* and after it run writes "\r\n> " and the line if the pass printed, and
\* nothing if it did not (in a pass and a step in which no write returns
\* Err).
C10_TabKeepsLine ==
    [][/\ TabStep =>
             \/ line' = line
             \/ /\ AfterBestMatch
                /\ autocomplete_best_match.v # <<>>
                /\ line' \in {line \o autocomplete_best_match.v,
                              line \o autocomplete_best_match.v \o <<" ">>}
       /\ (InTraversal /\ Mode = "AutocompleteList") =>
             /\ line' = line
             /\ (pc = "handled" /\ ~ctx.err /\ pc' # "failed") =>
                  /\ pc' = "bytes"
                  /\ writer' = IF ctx.printed_stuff
                               THEN writer \o <<"\r", "\n", ">", " ">> \o line
                               ELSE writer]_vars

\* C10 witness: after the Tab on "config con" the line is as typed, and the
\* two names, a new prompt and the line were written
C10_Witness ==
    /\ pc = "bytes"
    /\ handle = "handle_cli"
    /\ line = s_config \o <<" ", "c", "o", "n">>
    /\ writer = <<"\r", ESC, "[", "0", "K">> \o s_connetion \o <<" ">>
                   \o s_constant \o <<"\r", "\n", ">", " ">> \o line

\* C10, the other case: a list pass that printed nothing returned, and
\* nothing was written
C10_NothingPrintedSeen ==
    /\ pc = "handled"
    /\ Mode = "AutocompleteList"
    /\ ~ctx.printed_stuff
    /\ writer = <<>>

\* a Print action is about to be matched
AtPrint == HasByte /\ Action.kind = "Print"

\* C11: the line never holds more than Capacity bytes, across Print and Tab
\* alike.  A Print whose scalar value does not fit leaves the line as it is,
\* writes nothing and does not end the loop; a Print that fits appends that
\* scalar value, and its echo, unless the write returns Err, is that scalar
\* value alone.
C11_LineWithinCapacity ==
    /\ [](byte_len(line) <= Capacity)
    /\ [][AtPrint =>
            IF byte_len(line) + len_utf8(Action.v) > Capacity
            THEN line' = line /\ writer' = <<>> /\ pc' = "bytes"
            ELSE /\ line' = Append(line, Action.v)
                 /\ pc' # "failed" => (writer' = <<Action.v>> /\ pc' = "bytes")]_vars

\* C11 witness: a Print was matched with the line at its capacity; the line
\* is as it was and nothing was written
C11_Witness ==
    /\ pc = "bytes"
    /\ prev.action.kind = "Print"
    /\ byte_len(prev.line) = Capacity
    /\ line = prev.line
    /\ writer = <<>>

\* C11, a scalar value of two bytes met a line one byte short of capacity
C11_TwoByteScalarDroppedSeen ==
    /\ pc = "bytes"
    /\ prev.action = [kind |-> "Print", v |-> E_ACUTE]
    /\ byte_len(prev.line) = Capacity - 1
    /\ line = prev.line
    /\ writer = <<>>

\* C11, a Tab completion filled the line to its capacity
C11_CompletionAtCapacitySeen ==
    /\ pc = "bytes"
    /\ prev.action.v = Tab
    /\ byte_len(prev.line) < Capacity
    /\ byte_len(line) = Capacity

\* the Action about to be matched is CtrlC or CtrlD and the line is empty
AtExit == HasByte /\ IsControl(Action, {CtrlC, CtrlD}) /\ line = <<>>

\* C12: run returns Ok in a step if and only if that step matches a CtrlC or
\* a CtrlD with the line empty: no other Action, no read of zero bytes and no
\* step of a traversal ends the loop with Ok.
C12_OkOnlyOnExitKey == [][pc' = "returned" <=> AtExit]_vars

\* C12 witness: run returned Ok on a CtrlD that met an empty line
C12_Witness ==
    /\ pc = "returned"
    /\ prev = [action |-> [kind |-> "ControlCharacter", v |-> CtrlD],
               line |-> <<>>]

\* C12, a CtrlD met a line that is not empty and the loop goes on
C12_CtrlDIgnoredSeen ==
    /\ pc = "bytes"
    /\ prev.action.v = CtrlD
    /\ prev.line # <<>>
    /\ line = prev.line

\* C12, a read returned zero bytes: no Action was matched, and run is at the
\* flush that leads to the next read
C12_EmptyReadSeen ==
    /\ pc = "bytes"
    /\ reads = 1
    /\ buf = <<>>
    /\ prev = NoAction

\* the Action about to be matched is CarriageReturn
AtEnter == HasByte /\ IsControl(Action, {CarriageReturn})

\* C13: a CarriageReturn, whatever the line holds, starts one traversal in
\* Execute mode with a Level over the whole line; the traversal leaves the
\* line alone, and hints write nothing in it (all that is written comes from
\* print calls of the handler); when the handler has returned, run empties the
\* line, writes "\r\n> " after what the handler wrote and goes on with the
\* next byte without calling the handler again (the last in a step in which
\* no write returns Err).
C13_SubmitRunsOneExecutePass ==
    /\ []((InTraversal /\ Mode = "Execute" /\ prints = 0) =>
             (writer = <<>> /\ ~ctx.printed_stuff))
    /\ [][/\ AtEnter =>
                /\ pc' = "handle"
                /\ ctx' = ContextNew(Execute, <<>>)
                /\ level' = Level(line)
                /\ line' = line
          /\ (pc = "handle" /\ Mode = "Execute") =>
                (line' = line /\ level' = level /\ pc' \in {"handle", "handled"})
          /\ (pc = "handled" /\ Mode = "Execute" /\ ~ctx.err
                /\ pc' # "failed") =>
                /\ pc' = "bytes"
                /\ line' = <<>>
                /\ writer' = writer \o <<"\r", "\n", ">", " ">>]_vars

\* C13 witness: handle_cli was given the line "save" and has returned; the
\* line is empty and the prompt follows what the handler printed
C13_Witness ==
    /\ pc = "bytes"
    /\ handle = "handle_cli"
    /\ prev = [action |-> [kind |-> "ControlCharacter", v |-> CarriageReturn],
               line |-> s_save]
    /\ line = <<>>
    /\ writer = <<"\r", "\n">> \o s_save \o <<"\r", "\n", ">", " ">>

\* C13, the empty line was submitted, the handler hinted names in Execute
\* mode and returned: nothing was written
C13_HintsInExecuteSeen ==
    /\ pc = "handled"
    /\ Mode = "Execute"
    /\ level = Level(<<>>)
    /\ Len(ctx.hinted) >= 2
    /\ writer = <<>>

\* a read, a write or a flush has returned Err: the Context holds the Err of
\* a write the handler made through it, or run has returned Err
Failed == pc = "failed" \/ ctx.err

\* C14: once a read, a write or a flush has returned Err, no read, write or
\* flush is issued and no traversal is started: inside the Context no
\* write_all follows one that returned Err; every later step only hands the
\* Err on, from the handler to run and from run to its caller, and the bytes
\* left in the batch stay where they are; a step in which a write of run
\* returns Err is the step in which run returns.  The handlers return the Err
\* of a call of ctx at once, as handle_cli does with "?".
C14_ErrEndsRun ==
    /\ [](~ctx.after_err)
    /\ []((Failed /\ pc # "failed") => ENABLED (HandlerErr \/ TraversalErr))
    /\ [][Failed =>
            /\ Failed'
            /\ pc' \in {"handled", "failed"}
            /\ UNCHANGED <<reads, flushes, buf, parser, writer, unflushed,
                           line>>]_vars

\* C14 witness: in the list pass of handle_cli on an empty line the write of
\* the space after "config" returned Err; run has returned it, nothing was
\* written after "config" and the second Tab of the batch was not processed
C14_Witness ==
    /\ pc = "failed"
    /\ handle = "handle_cli"
    /\ prev.action.v = Tab
    /\ line = <<>>
    /\ writer = <<"\r", ESC, "[", "0", "K">> \o s_config
    /\ buf = <<Tab>>
    /\ reads < MaxReads

\* C14, the Err of a print call in Execute mode is on its way to run
C14_HandlerErrSeen ==
    /\ pc = "handled"
    /\ Mode = "Execute"
    /\ ctx.err
    /\ last.op = "print"

\* C14, a read returned Err
C14_ReadErrSeen ==
    /\ pc = "failed"
    /\ reads = 1
    /\ flushes = 0
    /\ buf = <<>>

\* C14, a flush returned Err
C14_FlushErrSeen ==
    /\ pc = "failed"
    /\ flushes = reads
    /\ reads < MaxReads

\* C15: the sink is flushed only when every byte of the batch has been
\* processed; between two reads there is exactly one flush, and at each read
\* after the first nothing written is left unflushed.
C15_OneFlushPerBatch ==
    /\ [](pc = "read" => (flushes = reads /\ ~unflushed))
    /\ [](pc \in {"bytes", "handle", "handled"} => flushes + 1 = reads)
    /\ [][flushes' # flushes =>
            (pc = "bytes" /\ buf = <<>> /\ flushes' = flushes + 1)]_vars

\* C15 witness: a batch of text was echoed and flushed, and run is at its
\* second read
C15_Witness ==
    /\ pc = "read"
    /\ reads = 1
    /\ flushes = 1
    /\ byte_len(line) > 1
    /\ ~unflushed

\* C15, the bytes written by the actions of a batch wait for the flush at
\* its end
C15_WritesAwaitFlushSeen ==
    /\ pc = "bytes"
    /\ buf = <<>>
    /\ unflushed
    /\ flushes + 1 = reads
    /\ prev.action.v = CarriageReturn

\* the display normalization of a mode
Normalization ==
    IF Mode = "Execute" THEN <<"\r", "\n">> ELSE <<"\r", ESC, "[", "0", "K">>

\* the calls of print made so far in this traversal: by the handler, and by
\* hint_autocomplete for a name it lists
PrintedNames == IF Mode = "AutocompleteList" THEN Len(Listed) ELSE 0
PrintCalls == prints + PrintedNames

\* the bytes written in this traversal after the first k
AfterFirst(k) == SubSeq(writer, k + 1, Len(writer))

\* C16: in a traversal in which no write returns Err, however many print
\* calls are made, directly or by listing hints: before the first of them
\* nothing is written and the printed flag is false; from the first on the
\* flag is true and the bytes written are the normalization of the mode
\* ("\r\n" in Execute mode, "\r" ESC "[0K" in both autocomplete modes),
\* then printed data, and the normalization is not among the bytes again.
C16_NormalizedOncePerTraversal ==
    (InTraversal /\ ~ctx.err) =>
       IF PrintCalls = 0
       THEN writer = <<>> /\ ~ctx.printed_stuff
       ELSE /\ ctx.printed_stuff
            /\ IsPrefix(Normalization, writer)
            /\ Len(writer) > Len(Normalization)
            /\ \A i \in 1..Len(AfterFirst(Len(Normalization))) :
                  AfterFirst(Len(Normalization))[i] \notin {"\r", "\n", ESC}

\* C16 witness: two print calls in a best-match traversal, one normalization
C16_Witness ==
    /\ InTraversal
    /\ Mode = "AutocompleteBestMatch"
    /\ prints = 2
    /\ writer = <<"\r", ESC, "[", "0", "K", "x", "x">>

\* C16, two print calls in Execute mode
C16_ExecuteSeen ==
    /\ InTraversal
    /\ Mode = "Execute"
    /\ prints = 2
    /\ writer = <<"\r", "\n", "x", "x">>

\* C16, a print call of the handler and a listed name in one list pass
C16_ListSeen ==
    /\ InTraversal
    /\ Mode = "AutocompleteList"
    /\ prints = 1
    /\ PrintedNames = 1
    /\ writer \in {<<"\r", ESC, "[", "0", "K", "x", " ", "a", "b">>,
                   <<"\r", ESC, "[", "0", "K", "a", "b", "x">>}

\* the Action about to be matched is CtrlC
AtCtrlC == HasByte /\ IsControl(Action, {CtrlC})

\* C17: a CtrlC that meets a line that is not empty does not end the loop
\* with Ok: unless its write returns Err, it empties the line, writes "\r"
\* ESC "[0K> " and nothing else, and run goes on with the next byte; a CtrlC
\* that is the next Action after such a CtrlC makes run return Ok.
C17_CtrlCClearsThenExits ==
    [][/\ (AtCtrlC /\ line # <<>>) => pc' \in {"bytes", "failed"}
       /\ (AtCtrlC /\ line # <<>> /\ pc' # "failed") =>
             /\ line' = <<>>
             /\ writer' = <<"\r", ESC, "[", "0", "K", ">", " ">>
       /\ (AtCtrlC /\ prev.action.v = CtrlC /\ prev.line # <<>>) =>
             pc' = "returned"]_vars

\* C17 witness: a CtrlC has cleared the line "s" and the next byte of the
\* batch is a CtrlC
C17_Witness ==
    /\ pc = "bytes"
    /\ prev = [action |-> [kind |-> "ControlCharacter", v |-> CtrlC],
               line |-> <<"s">>]
    /\ line = <<>>
    /\ writer = <<"\r", ESC, "[", "0", "K", ">", " ">>
    /\ buf = <<CtrlC>>

\* the Action about to be matched is Backspace or CtrlH
AtErase == HasByte /\ IsControl(Action, {Backspace, CtrlH})

\* C18: a Backspace or CtrlH that meets a line that is not empty removes its
\* last scalar value, with all its bytes, leaves the scalar values before it
\* as they are and, unless the write returns Err, writes "\x08" ESC "[0K"
\* and nothing else; on an empty line it changes nothing, writes nothing and
\* cannot fail.
C18_EraseRemovesLastScalar ==
    [][AtErase =>
         IF line # <<>>
         THEN /\ line' = SubSeq(line, 1, Len(line) - 1)
              /\ byte_len(line') = byte_len(line) - len_utf8(line[Len(line)])
              /\ pc' # "failed" =>
                    (pc' = "bytes" /\ writer' = <<BS, ESC, "[", "0", "K">>)
         ELSE line' = line /\ writer' = <<>> /\ pc' = "bytes"]_vars

\* C18 witness: a Backspace met the line "s" U+00E9 and left "s"
C18_Witness ==
    /\ pc = "bytes"
    /\ prev = [action |-> [kind |-> "ControlCharacter", v |-> Backspace],
               line |-> <<"s", E_ACUTE>>]
    /\ line = <<"s">>
    /\ writer = <<BS, ESC, "[", "0", "K">>

\* C18, a CtrlH met an empty line
C18_EmptyLineSeen ==
    /\ pc = "bytes"
    /\ prev = [action |-> [kind |-> "ControlCharacter", v |-> CtrlH],
               line |-> <<>>]
    /\ line = <<>>
    /\ writer = <<>>

\* C19: a step of a Tab starts the list pass only when the first pass ended
\* with two or more matching candidates; after a first pass with an exact
\* match (one candidate matched the partial token) no list pass starts.
C19_ListPassOnlyForSeveralMatches ==
    [][(AfterBestMatch /\ pc' = "handle") =>
          (~exact_match /\ Cardinality(Candidates) >= 2)]_vars

\* C19: Tab on the line "save" with handle_cli: only "save" matched the
\* partial token "save", and the list pass has run and listed it
C19_ListPassAfterExactMatch ==
    /\ pc = "handled"
    /\ handle = "handle_cli"
    /\ Mode = "AutocompleteList"
    /\ line = s_save
    /\ Partial = s_save
    /\ Listed = <<s_save>>
    /\ writer = <<"\r", ESC, "[", "0", "K">> \o s_save

\* C20: when run has returned Ok, no byte written to the sink is left
\* without a flush after it.
C20_FlushedOnOk == pc = "returned" => ~unflushed

\* C20: run has returned Ok on the second CtrlC of a batch, and the bytes the
\* first CtrlC wrote were not flushed
C20_UnflushedOnOk ==
    /\ pc = "returned"
    /\ unflushed
    /\ prev.action.v = CtrlC
    /\ writer = <<>>
    /\ buf = <<>>

====
